---- MODULE Spec2Model ----
(***************************************************************************)
(* Model of ras_tasklingo: the pose synthesizer of scripts/pose_fetcher.py *)
(* (process_pose_sequence, quaternion_to_euler) and the container resolver *)
(* and normalizer of scripts/asset_mapper.py (match_container,             *)
(* process_module_sequence).                                               *)
(*                                                                         *)
(* Numbers.  A Python float is modelled as an integer count of 1/10000,    *)
(* so 1.0 is 10000 and 1.2346 is 12346; round(v, 3) is Round3.  Quaternion *)
(* components are whole numbers, for which atan2 and asin are tabulated.   *)
(*                                                                         *)
(* Op-code lines.  A line is [head, args]: head is the text before "(" and *)
(* args is the result of split_args on the text between the parentheses;   *)
(* each argument is the list of its comma separated tokens once the        *)
(* surrounding parentheses are stripped (a container id is one token).     *)
(***************************************************************************)
EXTENDS Integers, Sequences, FiniteSets, TLC

VARIABLES module_calls, containers_dict, pose_sequence, targets, pose_counter,
          idx, pc, registry0, run, first_output,
          containers, module_call, updated_module_sequence,
          relevant_container_ids, mpc, ncalls,
          text, sidx, result, spc,
          value, parsed, ppc

posevars == <<module_calls, containers_dict, pose_sequence, targets,
              pose_counter, idx, pc, registry0, run, first_output>>

mapvars == <<containers, module_call, updated_module_sequence,
             relevant_container_ids, mpc, ncalls>>

\* split_module_calls (text, sidx, result, spc) and parse_value (value, parsed, ppc)
textvars == <<text, sidx, result, spc, value, parsed, ppc>>

vars == <<posevars, mapvars, textvars>>

(***************************************************************************)
(* Bounds                                                                  *)
(***************************************************************************)
MaxLines == 3
MaxDesc == 2
MaxRegistry == 2
MaxCalls == 1

(***************************************************************************)
(* Floats                                                                  *)
(***************************************************************************)
Abs(v) == IF v < 0 THEN 0 - v ELSE v

\* float(tok): the tokens that parse, and their value in 1/10000
FloatTokens == {"0", "1", "2", "3", "4", "5", "6", "0.5", "1.2346"}

FloatOf(tok) ==
  CASE tok = "0" -> 0
    [] tok = "1" -> 10000
    [] tok = "2" -> 20000
    [] tok = "3" -> 30000
    [] tok = "4" -> 40000
    [] tok = "5" -> 50000
    [] tok = "6" -> 60000
    [] tok = "0.5" -> 5000
    [] tok = "1.2346" -> 12346

\* [float(x.strip()) for x in s.split(',')] raises ValueError on any bad token
ParsesAsFloats(toks) == \A i \in 1..Len(toks) : toks[i] \in FloatTokens

ParseFloats(toks) == [i \in 1..Len(toks) |-> FloatOf(toks[i])]

\* round(v, 3): to the nearest multiple of 10/10000, ties to even
Round3(v) ==
  LET q == v \div 10
      r == v % 10
  IN  IF r < 5 THEN q * 10
      ELSE IF r > 5 THEN (q + 1) * 10
      ELSE IF q % 2 = 0 THEN q * 10 ELSE (q + 1) * 10

Pi == 31416

\* math.atan2 on whole-number arguments, in 1/10000 rad
Atan2(y, x) ==
  CASE y = 0 /\ x > 0 -> 0
    [] y = 0 /\ x < 0 -> Pi
    [] y = 2 /\ x = 1 -> 11071
    [] y = 2 /\ x = -1 -> 20344
    [] y = 2 /\ x = -3 -> 25536
    [] y = 4 /\ x = 1 -> 13258
    [] y = 4 /\ x = -1 -> 18158
    [] y = 4 /\ x = -3 -> 22143
    [] y = -2 /\ x = 1 -> -11071
    [] y = -2 /\ x = -1 -> -20344
    [] y = -2 /\ x = -3 -> -25536
    [] y = -4 /\ x = 1 -> -13258
    [] y = -4 /\ x = -1 -> -18158
    [] y = -4 /\ x = -3 -> -22143

\* quaternion_to_euler(q) for a 4 component q; <<roll, pitch, yaw>>
quaternion_to_euler_nofallback(q) ==
  LET qx == q[1] \div 10000
      qy == q[2] \div 10000
      qz == q[3] \div 10000
      qw == q[4] \div 10000
      sinp == 2 * (qw * qy - qz * qx)
  IN  << Atan2(2 * (qw * qx + qy * qz), 1 - 2 * (qx * qx + qy * qy)),
         IF Abs(sinp) >= 1 THEN (IF sinp < 0 THEN 0 - (Pi \div 2) ELSE Pi \div 2) ELSE 0,
         Atan2(2 * (qw * qz + qx * qy), 1 - 2 * (qy * qy + qz * qz)) >>

quaternion_to_euler(q) ==
  LET qx == q[1] \div 10000
      qy == q[2] \div 10000
      qz == q[3] \div 10000
      qw == q[4] \div 10000
      sinr_cosp == 2 * (qw * qx + qy * qz)
      cosr_cosp == 1 - 2 * (qx * qx + qy * qy)
      roll == Atan2(sinr_cosp, cosr_cosp)
      sinp == 2 * (qw * qy - qz * qx)
      pitch == IF Abs(sinp) >= 1
               THEN (IF sinp < 0 THEN 0 - (Pi \div 2) ELSE Pi \div 2)
               ELSE 0
      siny_cosp == 2 * (qw * qz + qx * qy)
      cosy_cosp == 1 - 2 * (qy * qy + qz * qz)
      yaw == Atan2(siny_cosp, cosy_cosp)
  IN  IF roll = 0 /\ pitch = 0 /\ yaw = 0
      THEN <<0, 0, 10000>>
      ELSE <<roll, pitch, yaw>>

\* qx, qy, qz, qw = q raises ValueError unless q has 4 components
Unpacks4(q) == Len(q) = 4

(***************************************************************************)
(* The registry handed to process_pose_sequence (load_containers_dict)     *)
(***************************************************************************)
IdentityQuaternion == <<0, 0, 0, 10000>>

Container(position, orientation) ==
  [position |-> position, orientation |-> orientation]

C2Record == Container(<<50000, 50000, 50000>>, <<10000, 0, 0, 0>>)

\* position and orientation are whatever list of floats the CSV row held
C1Records ==
  { Container(<<0, 0, 0>>, IdentityQuaternion),
    Container(<<1234, 0, 0>>, <<0, 0, 10000>>),
    Container(<<0, 0, 0>>, <<0, 0, 0, 0, 10000>>),
    Container(<<0, 0>>, IdentityQuaternion),
    Container(<<0, 0, 0>>, <<0, 0, 10000, 10000>>) }

Registries == { [id \in {"C1", "C2"} |-> IF id = "C1" THEN c ELSE C2Record] : c \in C1Records }

(***************************************************************************)
(* Op-code lines                                                           *)
(***************************************************************************)
Line(head, args) == [head |-> head, args |-> args]

Lines ==
  { Line("Pick", << <<"C1">> >>),
    Line("Pick", << <<"C9">> >>),
    Line("Place", << <<"C1">>, <<"1", "2", "3">> >>),
    Line("Place", << <<"C1">>, <<"1.2346", "2", "3">> >>),
    Line("Place", << <<"C1">>, <<"4", "5", "6">>, <<"0.5", "0", "0">> >>),
    Line("Place", << <<"C1">>, <<"4", "5", "6">>, <<"0", "0", "1", "1">> >>),
    Line("Place", << <<"C1">>, <<"4", "5", "6">>, <<"0", "0", "0", "0", "1">> >>),
    Line("Place", << <<"C1">>, <<"4", "5", "6">>, <<"x">> >>),
    Line("Place", << <<"C1">>, <<"1", "2">> >>),
    Line("Place", << <<"C1">>, <<"x", "2", "3">> >>),
    Line("Place", << <<"C1">> >>),
    Line("Place", << <<"C9">>, <<"1", "2", "3">> >>),
    Line("pour", << <<"C2">>, <<"C1">> >>),
    Line("pour", << <<"C1">> >>),
    Line("pour", << <<"C1">>, <<"C9">>, <<"5">> >>),
    Line("stir", << <<"C1">> >>) }

LineSeqs == UNION { [1..n -> Lines] : n \in 0..MaxLines }

(***************************************************************************)
(* Output building blocks                                                  *)
(***************************************************************************)
Str(s) == [str |-> s]
Num(v) == [num |-> v]

PoseLabel(n) == "pose" \o ToString(n)
ErrorLabel(n) == "error_pose" \o ToString(n)

\* d[key] = val on an insertion-ordered dict
DictSet(d, key, val) ==
  IF \E i \in 1..Len(d) : d[i].key = key
  THEN [i \in 1..Len(d) |-> IF d[i].key = key THEN [key |-> key, val |-> val] ELSE d[i]]
  ELSE Append(d, [key |-> key, val |-> val])

PoseEntry(position, rpy) ==
  [x |-> Round3(position[1]), y |-> Round3(position[2]), z |-> Round3(position[3]),
   roll |-> Round3(rpy[1]), pitch |-> Round3(rpy[2]), yaw |-> Round3(rpy[3])]

ErrorEntry(kind, what) == [error |-> <<kind, what>>]

\* if len(orientation) < 4: orientation = [0.0, 0.0, 0.0, 1.0]
StoredQuaternion(orientation) ==
  IF Len(orientation) < 4 THEN IdentityQuaternion ELSE orientation

DefaultOrientation == <<0, 0, 10000>>

\* targets.append(pose_label); targets.append('grasp')
PickTargets(pose_label) == <<Str(pose_label), Str("grasp")>>

\* targets.append(pose_label); targets.append('release')
PlaceTargets(pose_label) == <<Str(pose_label), Str("release")>>

\* targets.append(pose_label); targets.append(1.57); targets.append(-1.57)
PourTargetsNoReturn(pose_label) == <<Str(pose_label), Num(15700)>>

PourTargets(pose_label) == <<Str(pose_label), Num(15700), Num(-15700)>>

\* pose_sequence[f"error_pose{pose_counter}"] = {'error': ...}; pose_counter += 1
EmitErrorStuck(poses, counter, entry) ==
  [poses |-> DictSet(poses, ErrorLabel(counter), entry), counter |-> counter]

EmitError(poses, counter, entry) ==
  [poses |-> DictSet(poses, ErrorLabel(counter), entry), counter |-> counter + 1]

\* container['position'] = new_position; container['orientation'] = new_orientation
PlaceUpdateKeepsPosition(container, new_position, new_orientation) ==
  [container EXCEPT !.orientation = new_orientation]

PlaceUpdate(container, new_position, new_orientation) ==
  [container EXCEPT !.position = new_position, !.orientation = new_orientation]

\* roll, pitch, yaw of a Place whose container exists (None when unpacking raises)
PlaceEuler(new_orientation) ==
  IF Len(new_orientation) = 3 THEN new_orientation
  ELSE IF Len(new_orientation) = 4 THEN quaternion_to_euler(new_orientation)
  ELSE <<0, 0, 10000>>

\* the orientation argument of a Place line
PlaceOrientation(args) ==
  IF Len(args) > 2
  THEN IF ParsesAsFloats(args[3]) THEN ParseFloats(args[3]) ELSE DefaultOrientation
  ELSE DefaultOrientation

(***************************************************************************)
(* Values of parsed call parameters (asset_mapper.parse_value results)     *)
(***************************************************************************)
StrV(s) == [kind |-> "str", s |-> s]
IntV(n) == [kind |-> "int", n |-> n]
TupleV(elems) == [kind |-> "tuple", elems |-> elems]
\* a dict, as its items in insertion order: <<key, value>> pairs, keys unique
MapV(items) == [kind |-> "map", items |-> items]

None == [none |-> TRUE]

\* str(v) for a string or an int
PyStr(v) == IF v.kind = "str" THEN v.s ELSE ToString(v.n)

\* str.lower on the strings of the model
Lower(s) ==
  CASE s = "Beaker" -> "beaker"
    [] s = "Flask" -> "flask"
    [] s = "BLUE" -> "blue"
    [] s = "Active Container" -> "active container"
    [] s = "Pick" -> "pick"
    [] s = "PLACE" -> "place"
    [] s = "Pour" -> "pour"
    [] OTHER -> s

HasKey(items, k) == \E i \in 1..Len(items) : items[i][1] = k

\* d.get(k, default) on a dict given by its items
DictGet(items, k, default) ==
  IF HasKey(items, k)
  THEN items[CHOOSE i \in 1..Len(items) : items[i][1] = k][2]
  ELSE default

\* container.get(key, '') on a registry record
RecordGet(container, key) ==
  IF key \in DOMAIN container THEN container[key] ELSE ""

(***************************************************************************)
(* match_container                                                         *)
(***************************************************************************)
\* criteria = {k: v for k, v in container_desc.items() if v != 'null' and v is not None}
Criteria(items) == SelectSeq(items, LAMBDA kv : kv[2] # StrV("null"))

MatchesSensitive(container, criteria) ==
  \A i \in 1..Len(criteria) :
     RecordGet(container, criteria[i][1]) = PyStr(criteria[i][2])

Matches(container, criteria) ==
  \A i \in 1..Len(criteria) :
     Lower(RecordGet(container, criteria[i][1])) = Lower(PyStr(criteria[i][2]))

match_container_sensitive(container_desc, cs) ==
  LET criteria == Criteria(container_desc.items)
      matching_containers == SelectSeq(cs, LAMBDA c : MatchesSensitive(c, criteria))
  IN  IF Len(matching_containers) = 0 THEN None ELSE matching_containers[1]

match_container(container_desc, cs) ==
  LET criteria == Criteria(container_desc.items)
      matching_containers == SelectSeq(cs, LAMBDA c : Matches(c, criteria))
  IN  IF Len(matching_containers) = 1 THEN matching_containers[1]
      ELSE IF Len(matching_containers) = 0 THEN None
      ELSE matching_containers[1]

\* match_container raises AttributeError unless the description has .items()
IsMapping(v) == v.kind = "map"

(***************************************************************************)
(* The registry list handed to process_module_sequence                     *)
(***************************************************************************)
RegistryId(i) == "C" \o ToString(i)

RecordShapes ==
  { [type |-> t, content_color |-> c] : t \in {"beaker", "Flask"}, c \in {"blue", "red"} }

RegistryRecord(i, shape) ==
  [id |-> RegistryId(i), aruco_id |-> "7" \o ToString(i),
   type |-> shape.type, content_color |-> shape.content_color]

RegistryLists ==
  UNION { { [i \in 1..n |-> RegistryRecord(i, f[i])] : f \in [1..n -> RecordShapes] }
          : n \in 0..MaxRegistry }

(***************************************************************************)
(* Commands (parse_module_call results) offered to process_module_sequence *)
(***************************************************************************)
DescFieldValues ==
  [type |-> {StrV("Beaker"), StrV("Active Container"), StrV("null")},
   content_color |-> {StrV("BLUE")},
   size |-> {StrV("large")}]

DescItems == UNION { { <<k, v>> : v \in DescFieldValues[k] } : k \in DOMAIN DescFieldValues }

DistinctKeys(items) ==
  \A i, j \in 1..Len(items) : i # j => items[i][1] # items[j][1]

\* the container descriptions with at most MaxDesc fields, in every field order
Descs ==
  { MapV(items) : items \in
      { it \in UNION { [1..n -> DescItems] : n \in 0..MaxDesc } : DistinctKeys(it) } }

FewDescs ==
  { MapV(<< <<"type", StrV("Beaker")>> >>),
    MapV(<< <<"content_color", StrV("BLUE")>>, <<"type", StrV("null")>> >>),
    MapV(<< <<"type", StrV("active container")>> >>),
    MapV(<< <<"size", StrV("large")>> >>) }

Command(name, params) == [name |-> name, params |-> params]

PickCommands ==
  { Command("pick", << <<"container", d>> >>) : d \in Descs }
  \cup { Command("Pick", << >>),
         Command("pick", << <<"container", StrV("Beaker")>> >>) }

PlaceCommands ==
  { Command("place", << <<"container", d>>,
                        <<"destination_location", TupleV(<<1, 2, 3>>)>> >>) : d \in FewDescs }
  \cup { Command("PLACE", << <<"container", d>> >>) : d \in FewDescs }
  \cup { Command("place", << <<"destination_container", d>>,
                             <<"container", MapV(<< >>)>> >>) : d \in FewDescs }

PourCommands ==
  { Command("pour", << <<"original_container", o>>, <<"destination_container", d>> >>) :
       o \in FewDescs, d \in FewDescs \cup {MapV(<< <<"type", IntV(5)>> >>)} }
  \cup { Command("Pour", << <<"original_container", o>> >>) : o \in FewDescs }
  \cup { Command("pour", << <<"volume", v>> >>) :
           v \in {StrV("all"), IntV(50), StrV("50ml"), TupleV(<<1, 2>>)} }
  \cup { Command("pour", << <<"original_container", StrV("Beaker")>> >>) }

OtherCommands ==
  { Command("stir", << <<"container", MapV(<< <<"type", StrV("Beaker")>> >>)>> >>) }

Commands == PickCommands \cup PlaceCommands \cup PourCommands \cup OtherCommands

(***************************************************************************)
(* process_module_sequence                                                 *)
(***************************************************************************)
ContainerParams == {"container", "original_container", "destination_container"}

\* the id written for a container parameter: matching['id'], else 'unknown'
ResolvedIdAruco(matching) ==
  IF matching = None THEN "unknown" ELSE matching.aruco_id

ResolvedId(matching) ==
  IF matching = None THEN "unknown" ELSE matching.id

\* the ids appended to relevant_container_ids for one parameter
RelevantIds(matching) ==
  IF matching = None THEN <<>> ELSE <<matching.id>>

\* destination id of a pour whose destination matched nothing
PourFallback(destination_container_desc) ==
  IF Lower(DictGet(destination_container_desc.items, "type", StrV("")).s) = "active container"
  THEN "active_container"
  ELSE "unknown"

\* volume_str
VolumeStr(volume) ==
  IF volume.kind = "int" THEN ToString(volume.n)
  ELSE IF volume.kind = "str" THEN volume.s
  ELSE "all"

\* '(' + ','.join(map(str, destination_location)) + ')' or str(destination_location),
\* as the tokens the pose synthesizer will split it into
LocationTokens(destination_location) ==
  IF destination_location.kind = "tuple"
  THEN [i \in 1..Len(destination_location.elems) |-> ToString(destination_location.elems[i])]
  ELSE <<PyStr(destination_location)>>

TextIdle ==
  /\ text = <<>>
  /\ sidx = 0
  /\ result = <<>>
  /\ spc = "idle"
  /\ value = None
  /\ parsed = None
  /\ ppc = "idle"

MapIdle ==
  /\ containers = <<>>
  /\ module_call = Command("", << >>)
  /\ updated_module_sequence = <<>>
  /\ relevant_container_ids = <<>>
  /\ mpc = "idle"
  /\ ncalls = 0

MapRaise ==
  /\ mpc' = "aborted"
  /\ UNCHANGED <<containers, updated_module_sequence, posevars, textvars>>

MapContinue ==
  /\ mpc' = mpc
  /\ UNCHANGED <<containers, posevars, textvars>>

PourCommand ==
  /\ mpc = "loop"
  /\ ncalls < MaxCalls
  /\ \E call \in Commands :
       /\ Lower(call.name) = "pour"
       /\ module_call' = call
       /\ ncalls' = ncalls + 1
       /\ LET original_container_desc == DictGet(call.params, "original_container", MapV(<< >>))
              destination_container_desc ==
                 DictGet(call.params, "destination_container",
                         MapV(<< <<"type", StrV("active container")>> >>))
              volume == DictGet(call.params, "volume", StrV("all"))
          IN  IF ~IsMapping(original_container_desc)
              THEN MapRaise /\ UNCHANGED relevant_container_ids
              ELSE
                LET matching_original == match_container(original_container_desc, containers)
                    original_id == ResolvedId(matching_original)
                    ids1 == relevant_container_ids \o RelevantIds(matching_original)
                IN  IF ~IsMapping(destination_container_desc)
                    THEN MapRaise /\ relevant_container_ids' = ids1
                    ELSE
                      LET matching_destination ==
                             match_container(destination_container_desc, containers)
                      IN  IF /\ matching_destination = None
                             /\ DictGet(destination_container_desc.items, "type", StrV("")).kind # "str"
                          THEN MapRaise /\ relevant_container_ids' = ids1
                          ELSE
                            LET destination_id ==
                                   IF matching_destination # None
                                   THEN matching_destination.id
                                   ELSE PourFallback(destination_container_desc)
                                volume_str == VolumeStr(volume)
                            IN  /\ MapContinue
                                /\ relevant_container_ids' =
                                      ids1 \o RelevantIds(matching_destination)
                                /\ updated_module_sequence' =
                                      Append(updated_module_sequence,
                                        IF volume_str # "all"
                                        THEN Line("pour", << <<original_id>>, <<destination_id>>,
                                                             <<volume_str>> >>)
                                        ELSE Line("pour", << <<original_id>>, <<destination_id>> >>))

\* the for loop over params.items(): the params after resolving the container
\* parameters among the first k, and the ids it appended
RECURSIVE ResolveParams(_, _, _)
ResolveParams(params, cs, k) ==
  IF k = 0 THEN [params |-> params, ids |-> <<>>, ok |-> TRUE]
  ELSE LET before == ResolveParams(params, cs, k - 1)
           param_name == params[k][1]
           param_value == params[k][2]
       IN  IF ~before.ok \/ param_name \notin ContainerParams THEN before
           ELSE IF ~IsMapping(param_value) THEN [before EXCEPT !.ok = FALSE]
           ELSE LET matching_container == match_container(param_value, cs)
                IN  [params |-> [before.params EXCEPT ![k] =
                                   <<param_name, ResolvedId(matching_container)>>],
                     ids |-> before.ids \o RelevantIds(matching_container),
                     ok |-> TRUE]

PickPlaceCommand ==
  /\ mpc = "loop"
  /\ ncalls < MaxCalls
  /\ \E call \in Commands :
       /\ Lower(call.name) # "pour"
       /\ module_call' = call
       /\ ncalls' = ncalls + 1
       /\ LET r == ResolveParams(call.params, containers, Len(call.params))
          IN  IF ~r.ok
              THEN MapRaise /\ relevant_container_ids' = relevant_container_ids \o r.ids
              ELSE IF Lower(call.name) \in {"pick", "place"} /\ ~HasKey(r.params, "container")
              THEN MapRaise /\ relevant_container_ids' = relevant_container_ids \o r.ids
              ELSE /\ MapContinue
                   /\ relevant_container_ids' = relevant_container_ids \o r.ids
                   /\ updated_module_sequence' =
                        IF Lower(call.name) = "pick"
                        THEN Append(updated_module_sequence,
                               Line("Pick", << <<DictGet(r.params, "container", "")>> >>))
                        ELSE IF Lower(call.name) = "place"
                        THEN Append(updated_module_sequence,
                               Line("Place", << <<DictGet(r.params, "container", "")>>,
                                   LocationTokens(DictGet(r.params, "destination_location",
                                                          StrV("none"))) >>))
                        ELSE updated_module_sequence

\* return updated_module_sequence.strip(), relevant_container_ids
ReturnSequence ==
  /\ mpc = "loop"
  /\ mpc' = "returned"
  /\ UNCHANGED <<containers, module_call, updated_module_sequence,
                 relevant_container_ids, ncalls, posevars, textvars>>

NextMap ==
  \/ PourCommand
  \/ PickPlaceCommand
  \/ ReturnSequence

(***************************************************************************)
(* process_pose_sequence                                                   *)
(***************************************************************************)
Init ==
  /\ module_calls \in LineSeqs
  /\ containers_dict \in Registries
  /\ registry0 = containers_dict
  /\ pose_sequence = <<>>
  /\ targets = <<>>
  /\ pose_counter = 1
  /\ idx = 0
  /\ pc = "loop"
  /\ run = 1
  /\ first_output = <<>>
  /\ MapIdle
  /\ TextIdle

InLoop == pc = "loop" /\ idx < Len(module_calls)

\* an uncaught exception leaves process_pose_sequence
Raise ==
  /\ pc' = "aborted"
  /\ UNCHANGED <<module_calls, idx, registry0, run, first_output, mapvars, textvars>>

Continue ==
  /\ pc' = pc
  /\ idx' = idx + 1
  /\ UNCHANGED <<module_calls, registry0, run, first_output, mapvars, textvars>>

PickBranch ==
  /\ InLoop
  /\ LET line == module_calls[idx + 1]
         container_id == line.args[1][1]
     IN  /\ line.head = "Pick"
         /\ IF container_id \in DOMAIN containers_dict
            THEN LET container == containers_dict[container_id]
                     position == container.position
                     orientation == StoredQuaternion(container.orientation)
                     pose_label == PoseLabel(pose_counter)
                 IN  IF ~Unpacks4(orientation)
                     THEN /\ Raise
                          /\ UNCHANGED <<containers_dict, pose_sequence, targets, pose_counter>>
                     ELSE IF Len(position) < 3
                     THEN /\ Raise
                          /\ pose_counter' = pose_counter + 1
                          /\ UNCHANGED <<containers_dict, pose_sequence, targets>>
                     ELSE /\ Continue
                          /\ pose_counter' = pose_counter + 1
                          /\ pose_sequence' = DictSet(pose_sequence, pose_label,
                                  PoseEntry(position, quaternion_to_euler(orientation)))
                          /\ targets' = targets \o PickTargets(pose_label)
                          /\ UNCHANGED containers_dict
            ELSE LET e == EmitError(pose_sequence, pose_counter,
                                    ErrorEntry("Container not found", container_id))
                 IN  /\ Continue
                     /\ pose_sequence' = e.poses
                     /\ pose_counter' = e.counter
                     /\ UNCHANGED <<containers_dict, targets>>

PlaceBranch ==
  /\ InLoop
  /\ LET line == module_calls[idx + 1]
         args == line.args
     IN  /\ line.head = "Place"
         /\ IF Len(args) < 2 \/ ~ParsesAsFloats(args[2])
            THEN /\ Continue
                 /\ UNCHANGED <<containers_dict, pose_sequence, targets, pose_counter>>
            ELSE LET container_id == args[1][1]
                     new_position == ParseFloats(args[2])
                     new_orientation == PlaceOrientation(args)
                     pose_label == PoseLabel(pose_counter)
                 IN  IF container_id \in DOMAIN containers_dict
                     THEN /\ containers_dict' =
                               [containers_dict EXCEPT ![container_id] =
                                  PlaceUpdate(@, new_position, new_orientation)]
                          /\ pose_counter' = pose_counter + 1
                          /\ IF Len(new_position) < 3
                             THEN /\ Raise
                                  /\ UNCHANGED <<pose_sequence, targets>>
                             ELSE /\ Continue
                                  /\ pose_sequence' = DictSet(pose_sequence, pose_label,
                                          PoseEntry(new_position, PlaceEuler(new_orientation)))
                                  /\ targets' = targets \o PlaceTargets(pose_label)
                     ELSE LET e == EmitError(pose_sequence, pose_counter,
                                             ErrorEntry("Container not found", container_id))
                          IN  /\ Continue
                              /\ pose_sequence' = e.poses
                              /\ pose_counter' = e.counter
                              /\ UNCHANGED <<containers_dict, targets>>

PourBranch ==
  /\ InLoop
  /\ LET line == module_calls[idx + 1]
         args == line.args
     IN  /\ line.head = "pour"
         /\ IF Len(args) < 2
            THEN /\ Continue
                 /\ UNCHANGED <<containers_dict, pose_sequence, targets, pose_counter>>
            ELSE LET original_id == args[1][1]
                     destination_id == args[2][1]
                     pose_label == PoseLabel(pose_counter)
                 IN  IF destination_id \in DOMAIN containers_dict
                     THEN LET destination_container == containers_dict[destination_id]
                              position == destination_container.position
                              orientation == StoredQuaternion(destination_container.orientation)
                          IN  IF ~Unpacks4(orientation)
                              THEN /\ Raise
                                   /\ UNCHANGED <<containers_dict, pose_sequence, targets, pose_counter>>
                              ELSE IF Len(position) < 3
                              THEN /\ Raise
                                   /\ pose_counter' = pose_counter + 1
                                   /\ UNCHANGED <<containers_dict, pose_sequence, targets>>
                              ELSE /\ Continue
                                   /\ pose_counter' = pose_counter + 1
                                   /\ pose_sequence' = DictSet(pose_sequence, pose_label,
                                           PoseEntry(position, quaternion_to_euler(orientation)))
                                   /\ targets' = targets \o PourTargets(pose_label)
                                   /\ UNCHANGED containers_dict
                     ELSE LET e == EmitError(pose_sequence, pose_counter,
                                             ErrorEntry("Original container not found", original_id))
                          IN  /\ Continue
                              /\ pose_sequence' = e.poses
                              /\ pose_counter' = e.counter
                              /\ UNCHANGED <<containers_dict, targets>>

UnknownBranch ==
  /\ InLoop
  /\ LET line == module_calls[idx + 1]
         e == EmitError(pose_sequence, pose_counter,
                        ErrorEntry("Unknown module call", line.head))
     IN  /\ line.head \notin {"Pick", "Place", "pour"}
         /\ Continue
         /\ pose_sequence' = e.poses
         /\ pose_counter' = e.counter
         /\ UNCHANGED <<containers_dict, targets>>

\* final_output = {'Poses': pose_sequence, 'targets': targets}
final_output == [Poses |-> pose_sequence, targets |-> targets]

ReturnOutput ==
  /\ pc = "loop"
  /\ idx = Len(module_calls)
  /\ pc' = "returned"
  /\ UNCHANGED <<module_calls, containers_dict, pose_sequence, targets,
                 pose_counter, idx, registry0, run, first_output, mapvars, textvars>>

\* the caller runs the same op-codes again on the registry object it holds
SecondRun ==
  /\ pc = "returned"
  /\ run = 1
  /\ run' = 2
  /\ first_output' = <<final_output>>
  /\ pose_sequence' = <<>>
  /\ targets' = <<>>
  /\ pose_counter' = 1
  /\ idx' = 0
  /\ pc' = "loop"
  /\ UNCHANGED <<module_calls, containers_dict, registry0, mapvars, textvars>>

Next ==
  \/ PickBranch
  \/ PlaceBranch
  \/ PourBranch
  \/ UnknownBranch
  \/ ReturnOutput

Spec == Init /\ [][Next]_vars

NextRerun ==
  \/ PickBranch
  \/ PlaceBranch
  \/ PourBranch
  \/ UnknownBranch
  \/ ReturnOutput
  \/ SecondRun

SpecRerun == Init /\ [][NextRerun]_vars

InitMap ==
  /\ containers \in RegistryLists
  /\ module_call = Command("", << >>)
  /\ updated_module_sequence = <<>>
  /\ relevant_container_ids = <<>>
  /\ mpc = "loop"
  /\ ncalls = 0
  /\ module_calls = <<>>
  /\ containers_dict = << >>
  /\ registry0 = << >>
  /\ pose_sequence = <<>>
  /\ targets = <<>>
  /\ pose_counter = 1
  /\ idx = 0
  /\ pc = "idle"
  /\ run = 1
  /\ first_output = <<>>
  /\ TextIdle

SpecMap == InitMap /\ [][NextMap]_vars

TypeOK ==
  /\ pc \in {"idle", "loop", "returned", "aborted"}
  /\ mpc \in {"idle", "loop", "returned", "aborted"}
  /\ idx \in 0..Len(module_calls)
  /\ ncalls \in 0..MaxCalls
  /\ pose_counter \in 1..(Len(module_calls) + 1)

(***************************************************************************)
(* Properties of process_pose_sequence                                     *)
(***************************************************************************)
IsPoseLabel(k) == \E n \in 1..(MaxLines + 1) : k = PoseLabel(n)

LabelSuffix(k) == CHOOSE n \in 1..(MaxLines + 1) : k \in {PoseLabel(n), ErrorLabel(n)}

\* the step just taken processed one line and added a pose (not an error) entry
EmittedPose ==
  /\ idx' = idx + 1
  /\ Len(pose_sequence') = Len(pose_sequence) + 1
  /\ IsPoseLabel(pose_sequence'[Len(pose_sequence')].key)

NewEntry == pose_sequence'[Len(pose_sequence')]

\* a Place line on container c that reaches the end of its branch with c found
PlaceSucceeds(line, c) ==
  /\ line.head = "Place"
  /\ Len(line.args) >= 2
  /\ line.args[1][1] = c
  /\ c \in DOMAIN registry0
  /\ ParsesAsFloats(line.args[2])
  /\ Len(line.args[2]) >= 3

\* index of the last successful Place on c among the first k lines, 0 if none
LastPlace(c, k) ==
  LET S == {i \in 1..k : PlaceSucceeds(module_calls[i], c)}
  IN  IF S = {} THEN 0 ELSE CHOOSE i \in S : \A j \in S : j <= i

\* the container whose pose a Pick or pour line reads, "" for other lines
ReadContainer(line) ==
  IF line.head = "Pick" THEN line.args[1][1]
  ELSE IF line.head = "pour" /\ Len(line.args) >= 2 THEN line.args[2][1]
  ELSE ""

\* C1: process_pose_sequence never aborts, whatever the registry and the
\* op-code lines are (malformed Pick/Place/pour arguments included).
C1_NeverAborts == pc # "aborted"

\* C2: every op-code line contributes exactly one entry to Poses, so after k
\* lines Poses has exactly k entries.
C2_OneEntryPerLine == pc # "aborted" => Len(pose_sequence) = idx

\* C3: the labels of Poses are pairwise distinct, their numeric suffixes are
\* strictly increasing in emission order starting at 1, and no entry ever
\* overwrites an earlier one.
C3_LabelsOK ==
  /\ \A i, j \in 1..Len(pose_sequence) :
        i < j => /\ pose_sequence[i].key # pose_sequence[j].key
                 /\ LabelSuffix(pose_sequence[i].key) < LabelSuffix(pose_sequence[j].key)
  /\ Len(pose_sequence) > 0 => LabelSuffix(pose_sequence[1].key) = 1

C3_NoOverwrite ==
  /\ Len(pose_sequence') >= Len(pose_sequence)
  /\ \A i \in 1..Len(pose_sequence) : pose_sequence'[i] = pose_sequence[i]

C3_UniqueIncreasingLabels == []C3_LabelsOK /\ [][C3_NoOverwrite]_vars

C3_Witness ==
  /\ Len(pose_sequence) = 3
  /\ ~IsPoseLabel(pose_sequence[1].key)
  /\ ~IsPoseLabel(pose_sequence[2].key)
  /\ IsPoseLabel(pose_sequence[3].key)

\* the Pick(c), Place(c,(x,y,z)) scenario on a container with identity quaternion
C4_Scenario(c) ==
  /\ pc = "returned"
  /\ c \in DOMAIN registry0
  /\ registry0[c].orientation = IdentityQuaternion
  /\ Len(registry0[c].position) = 3
  /\ Len(module_calls) = 2
  /\ module_calls[1] = Line("Pick", << <<c>> >>)
  /\ module_calls[2].head = "Place"
  /\ Len(module_calls[2].args) = 2
  /\ module_calls[2].args[1] = <<c>>
  /\ Len(module_calls[2].args[2]) = 3
  /\ ParsesAsFloats(module_calls[2].args[2])

C4_Expected(p0, p) ==
  [Poses |-> << [key |-> "pose1",
                 val |-> [x |-> p0[1], y |-> p0[2], z |-> p0[3],
                          roll |-> 0, pitch |-> 0, yaw |-> 10000]],
                [key |-> "pose2",
                 val |-> [x |-> p[1], y |-> p[2], z |-> p[3],
                          roll |-> 0, pitch |-> 0, yaw |-> 10000]] >>,
   targets |-> <<Str("pose1"), Str("grasp"), Str("pose2"), Str("release")>>]

\* a successful Pick appends [label, "grasp"], a successful Place appends
\* [label, "release"], and a Pick or Place that emits no pose appends nothing
C4_TargetsStep ==
  (idx' = idx + 1 /\ module_calls[idx + 1].head \in {"Pick", "Place"}) =>
     IF EmittedPose
     THEN targets' = targets \o
            << Str(NewEntry.key),
               Str(IF module_calls[idx + 1].head = "Pick" THEN "grasp" ELSE "release") >>
     ELSE targets' = targets

C4_OriginalState ==
  \A c \in DOMAIN registry0 :
     C4_Scenario(c) =>
        final_output = C4_Expected(registry0[c].position,
                                   ParseFloats(module_calls[2].args[2]))

\* C4 as stated: Pick(c) then Place(c,(x,y,z)) on an identity-quaternion
\* container at p0 yields pose1 at exactly p0 and pose2 at exactly (x,y,z), both
\* with roll 0, pitch 0, yaw 1.0, and targets [pose1, grasp, pose2, release];
\* each successful Pick/Place appends exactly [label, grasp]/[label, release].
C4_Original == []C4_OriginalState /\ [][C4_TargetsStep]_vars

C4_AmendedState ==
  \A c \in DOMAIN registry0 :
     C4_Scenario(c) =>
        final_output =
          C4_Expected([i \in 1..3 |-> Round3(registry0[c].position[i])],
                      [i \in 1..3 |-> Round3(ParseFloats(module_calls[2].args[2])[i])])

\* C4 amended: as C4, with the positions of pose1 and pose2 being p0 and
\* (x,y,z) rounded to 3 decimals.
C4_PickPlaceEndToEnd == []C4_AmendedState /\ [][C4_TargetsStep]_vars

C4_Witness ==
  /\ C4_Scenario("C1")
  /\ module_calls[2].args[2] = <<"1.2346", "2", "3">>
  /\ Len(pose_sequence) = 2
  /\ Len(targets) = 4

\* position the entry just emitted for a Pick/pour must show, given the
\* last successful Place on the container it reads
C5_Step(conv(_)) ==
  EmittedPose =>
     LET c == ReadContainer(module_calls[idx + 1])
         i == LastPlace(c, idx)
     IN  (c # "" /\ i > 0) =>
            LET p == ParseFloats(module_calls[i].args[2])
            IN  /\ NewEntry.val.x = conv(p[1])
                /\ NewEntry.val.y = conv(p[2])
                /\ NewEntry.val.z = conv(p[3])

Exactly(v) == v

C6_Step ==
  EmittedPose =>
     LET c == ReadContainer(module_calls[idx + 1])
         i == LastPlace(c, idx)
     IN  (/\ c # ""
          /\ i > 0
          /\ Len(module_calls[i].args) > 2
          /\ ParsesAsFloats(module_calls[i].args[3])
          /\ Len(module_calls[i].args[3]) \in {3, 4}) =>
            LET reported == PoseEntry(ParseFloats(module_calls[i].args[2]),
                                      PlaceEuler(ParseFloats(module_calls[i].args[3])))
            IN  /\ NewEntry.val.roll = reported.roll
                /\ NewEntry.val.pitch = reported.pitch
                /\ NewEntry.val.yaw = reported.yaw

C6_PlaceUpdatesOrientation == [][C6_Step]_vars

\* C7: after process_pose_sequence returns, every container record of the
\* registry passed in has the position and orientation it had before the run,
\* and a second run on the same registry object and op-codes returns the same
\* output as the first.
C7_RegistryIsolated ==
  pc = "returned" =>
     /\ \A id \in DOMAIN registry0 :
           /\ containers_dict[id].position = registry0[id].position
           /\ containers_dict[id].orientation = registry0[id].orientation
     /\ run = 2 => first_output = <<final_output>>

(***************************************************************************)
(* Properties of process_module_sequence                                   *)
(***************************************************************************)
LastLine == updated_module_sequence[Len(updated_module_sequence)]

\* the last call consumed was one of the named commands and did not raise
Processed(names) ==
  /\ ncalls > 0
  /\ mpc # "aborted"
  /\ Lower(module_call.name) \in names

Range(f) == {f[i] : i \in DOMAIN f}

\* the same description with its fields in any order
FieldOrders(desc) ==
  { MapV(items) : items \in
      { it \in [1..Len(desc.items) -> Range(desc.items)] : Range(it) = Range(desc.items) } }

\* the record satisfies every criterion of the description
Satisfies(container, desc) ==
  \A kv \in Range(desc.items) :
     kv[2] # StrV("null") =>
        Lower(RecordGet(container, kv[1])) = Lower(PyStr(kv[2]))

\* "unknown" for zero matches, else the id of the first match in registry order
FirstMatchId(desc) ==
  LET M == {i \in 1..Len(containers) : Satisfies(containers[i], desc)}
  IN  IF M = {} THEN "unknown"
      ELSE containers[CHOOSE i \in M : \A j \in M : i <= j].id

C8_Resolves(desc, written) ==
  /\ written = FirstMatchId(desc)
  /\ \A d \in FieldOrders(desc) :
        ResolvedId(match_container(d, containers)) = written

\* C8: a container description resolves to "unknown" when no registry record
\* satisfies all its non-null fields case-insensitively, else to the id of the
\* first such record in registry order, whatever the order of its fields
\* (pick and place containers, and the origin of a pour).
C8_ContainerResolution ==
  /\ Processed({"pick", "place"}) =>
        C8_Resolves(DictGet(module_call.params, "container", None), LastLine.args[1][1])
  /\ Processed({"pour"}) =>
        C8_Resolves(DictGet(module_call.params, "original_container", MapV(<< >>)),
                    LastLine.args[1][1])

C8_Witness ==
  /\ Processed({"pick"})
  /\ Len(containers) = 2
  /\ containers[1].type = "Flask"
  /\ containers[2].type = "beaker"
  /\ containers[2].content_color = "blue"
  /\ module_call.params =
       << <<"container", MapV(<< <<"content_color", StrV("BLUE")>>,
                                 <<"type", StrV("Beaker")>> >>)>> >>
  /\ LastLine = Line("Pick", << <<"C2">> >>)

LineIds(line) ==
  IF line.head = "pour" THEN {line.args[1][1], line.args[2][1]} ELSE {line.args[1][1]}

\* C9: every container id in the returned op-code lines and in the relevant-id
\* list is the id of a registry record, "unknown" or "active_container".
C9_NoFabricatedId ==
  LET allowed == {containers[i].id : i \in 1..Len(containers)}
                    \cup {"unknown", "active_container"}
  IN  /\ \A i \in 1..Len(updated_module_sequence) :
            LineIds(updated_module_sequence[i]) \subseteq allowed
      /\ \A i \in 1..Len(relevant_container_ids) :
            relevant_container_ids[i] \in allowed

C9_Witness ==
  /\ mpc = "returned"
  /\ Len(containers) = 2
  /\ updated_module_sequence = << Line("pour", << <<"unknown">>, <<"C2">> >>) >>
  /\ relevant_container_ids = <<"C2">>

\* the description names the active container and no registry record satisfies it
IsUnmatchedActive(desc) ==
  /\ HasKey(desc.items, "type")
  /\ DictGet(desc.items, "type", None).kind = "str"
  /\ Lower(DictGet(desc.items, "type", None).s) = "active container"
  /\ \A i \in 1..Len(containers) : ~Satisfies(containers[i], desc)

\* C10: in any container-valued field of a pick, place or pour, a description
\* of type "active container" (any case) that matches no registry record
\* resolves to "active_container", not to "unknown".
C10_ActiveContainer ==
  /\ Processed({"pick", "place"}) =>
        (IsUnmatchedActive(DictGet(module_call.params, "container", None))
           => LastLine.args[1][1] = "active_container")
  /\ Processed({"pour"}) =>
        /\ IsUnmatchedActive(DictGet(module_call.params, "original_container", MapV(<< >>)))
             => LastLine.args[1][1] = "active_container"
        /\ IsUnmatchedActive(DictGet(module_call.params, "destination_container",
                                     MapV(<< <<"type", StrV("active container")>> >>)))
             => LastLine.args[2][1] = "active_container"

\* the step about to be taken processes a pour line with both container ids
AtPour ==
  /\ pc = "loop"
  /\ idx < Len(module_calls)
  /\ module_calls[idx + 1].head = "pour"
  /\ Len(module_calls[idx + 1].args) >= 2

\* exactly one entry is added to Poses and the line is consumed
EmitsOne ==
  /\ pc' = "loop"
  /\ idx' = idx + 1
  /\ Len(pose_sequence') = Len(pose_sequence) + 1
  /\ \A i \in 1..Len(pose_sequence) : pose_sequence'[i] = pose_sequence[i]

C11_Step ==
  AtPour =>
     LET d == module_calls[idx + 1].args[2][1]
     IN  IF d \in DOMAIN containers_dict
         THEN /\ EmitsOne
              /\ IsPoseLabel(NewEntry.key)
              /\ NewEntry.val.x = Round3(containers_dict[d].position[1])
              /\ NewEntry.val.y = Round3(containers_dict[d].position[2])
              /\ NewEntry.val.z = Round3(containers_dict[d].position[3])
              /\ targets' = targets \o <<Str(NewEntry.key), Num(15700), Num(-15700)>>
         ELSE /\ EmitsOne
              /\ ~IsPoseLabel(NewEntry.key)
              /\ DOMAIN NewEntry.val = {"error"}
              /\ targets' = targets

\* C11: a pour(o, d[, v]) whose destination d is in the registry emits exactly
\* one PoseEntry at d's current stored position (in the 3-decimal form of the
\* output) and appends exactly [label, 1.57, -1.57] to targets whatever o and v
\* are; if d is not in the registry it emits exactly one error entry, appends
\* nothing to targets, and processing continues.
C11_PourEmitsDestinationPose == [][C11_Step]_vars

PoseLabels == { PoseLabel(n) : n \in 1..(MaxLines + 1) }

ErrorLabels == { ErrorLabel(n) : n \in 1..(MaxLines + 1) }

\* the N of pose<N>
PoseNumber == [k \in PoseLabels |-> CHOOSE n \in 1..(MaxLines + 1) : k = PoseLabel(n)]

IsErrorLabel(k) == k \in ErrorLabels

\* the positions of targets that hold a pose or error label
LabelPositions ==
  { i \in 1..Len(targets) :
      IF DOMAIN targets[i] = {"str"}
      THEN targets[i].str \in PoseLabels \cup ErrorLabels
      ELSE FALSE }

\* targets[i] is followed by "grasp", by "release", or by 1.57 then -1.57
FollowedByAction(i) ==
  \/ /\ i + 1 <= Len(targets)
     /\ targets[i + 1] \in {Str("grasp"), Str("release")}
  \/ /\ i + 2 <= Len(targets)
     /\ targets[i + 1] = Num(15700)
     /\ targets[i + 2] = Num(-15700)

\* C16: after any prefix of op-code lines, every pose label in targets is a key
\* of Poses that holds coordinates; every pose<N> key of Poses occurs exactly
\* once in targets, immediately followed by its action tokens; no error_pose<N>
\* label occurs in targets; and the labels in targets appear in increasing N.
C16_TargetsMatchPoses ==
  LET positions == LabelPositions
  IN  /\ \A i \in positions :
            /\ targets[i].str \in PoseLabels
            /\ \E j \in 1..Len(pose_sequence) :
                  /\ pose_sequence[j].key = targets[i].str
                  /\ DOMAIN pose_sequence[j].val = {"x", "y", "z", "roll", "pitch", "yaw"}
      /\ \A j \in 1..Len(pose_sequence) :
            pose_sequence[j].key \in PoseLabels =>
               /\ Cardinality({i \in positions : targets[i].str = pose_sequence[j].key}) = 1
               /\ \A i \in positions :
                     targets[i].str = pose_sequence[j].key => FollowedByAction(i)
      /\ \A i, k \in positions :
            i < k => PoseNumber[targets[i].str] < PoseNumber[targets[k].str]

C16_Witness ==
  /\ Len(pose_sequence) = 3
  /\ IsErrorLabel(pose_sequence[1].key)
  /\ targets = <<Str("pose2"), Str("grasp"), Str("pose3"), Num(15700), Num(-15700)>>

\* C12: process_module_sequence never aborts, whatever the call-expressions
\* are: a malformed one (Pick or Place with no container field, a container
\* parameter that is not a mapping) is skipped and the remaining calls are
\* still normalized in order.
C12_MapperNeverAborts == mpc # "aborted"

(***************************************************************************)
(* split_module_calls.  The text is a sequence of one-character strings;   *)
(* sidx is the 0-based idx of the source, so s[idx] is text[sidx + 1].     *)
(* One action is one iteration of the outer while loop.                    *)
(***************************************************************************)
MaxText == 5

Alphabet == {"f", " ", "(", ")", "{", "}"}

Texts == UNION { [1..k -> Alphabet] : k \in 0..MaxText }

\* c.isspace()
IsSpace(c) == c = " "

\* c.isalpha() or c == '_'
IsNameChar(c) == c \in {"f", "_"}

\* while idx < n and s[idx].isspace(): idx += 1
RECURSIVE SkipSpace(_, _)
SkipSpace(t, i) ==
  IF i < Len(t) /\ IsSpace(t[i + 1]) THEN SkipSpace(t, i + 1) ELSE i

\* while idx < n and (s[idx].isalpha() or s[idx] == '_'): func_name += s[idx]; idx += 1
RECURSIVE SkipName(_, _)
SkipName(t, i) ==
  IF i < Len(t) /\ IsNameChar(t[i + 1]) THEN SkipName(t, i + 1) ELSE i

\* the capture loop: the value of idx when it ends, either just after the ')'
\* that brings bracket_level back to 0 or n when the text runs out
RECURSIVE CaptureEnd(_, _, _)
CaptureEnd(t, i, bracket_level) ==
  IF i >= Len(t) THEN i
  ELSE LET c == t[i + 1]
       IN  IF c = "(" THEN CaptureEnd(t, i + 1, bracket_level + 1)
           ELSE IF c = ")"
                THEN IF bracket_level - 1 = 0 THEN i + 1
                     ELSE CaptureEnd(t, i + 1, bracket_level - 1)
                ELSE CaptureEnd(t, i + 1, bracket_level)

\* s[a:b]
Slice(t, a, b) == SubSeq(t, a + 1, b)

\* not (idx >= n or s[idx] != '(')
OpensCall(t, i) == IF i < Len(t) THEN t[i + 1] = "(" ELSE FALSE

InitSplit ==
  /\ text \in Texts
  /\ sidx = 0
  /\ result = <<>>
  /\ spc = "loop"
  /\ value = None
  /\ parsed = None
  /\ ppc = "idle"
  /\ module_calls = <<>>
  /\ containers_dict = << >>
  /\ registry0 = << >>
  /\ pose_sequence = <<>>
  /\ targets = <<>>
  /\ pose_counter = 1
  /\ idx = 0
  /\ pc = "idle"
  /\ run = 1
  /\ first_output = <<>>
  /\ MapIdle

SplitFrame == UNCHANGED <<text, value, parsed, ppc, posevars, mapvars>>

\* an iteration that ends at the break or at one of the two continues
SplitSkip ==
  /\ spc = "loop"
  /\ sidx < Len(text)
  /\ LET start_idx == SkipSpace(text, sidx)
         name_end == SkipName(text, start_idx)
         func_name == Slice(text, start_idx, name_end)
         paren == SkipSpace(text, name_end)
     IN  /\ \/ /\ start_idx >= Len(text)
               /\ sidx' = start_idx
            \/ /\ start_idx < Len(text)
               /\ func_name = <<>>
               /\ sidx' = start_idx + 1
            \/ /\ start_idx < Len(text)
               /\ func_name # <<>>
               /\ ~OpensCall(text, paren)
               /\ sidx' = paren
  /\ spc' = spc
  /\ result' = result
  /\ SplitFrame

\* an iteration that reaches the capture loop and result.append(func_name + current)
SplitCapture ==
  /\ spc = "loop"
  /\ sidx < Len(text)
  /\ LET start_idx == SkipSpace(text, sidx)
         name_end == SkipName(text, start_idx)
         func_name == Slice(text, start_idx, name_end)
         paren == SkipSpace(text, name_end)
         end == CaptureEnd(text, paren, 0)
         current == Slice(text, paren, end)
     IN  /\ start_idx < Len(text)
         /\ func_name # <<>>
         /\ OpensCall(text, paren)
         /\ result' = Append(result, func_name \o current)
         /\ sidx' = end
  /\ spc' = spc
  /\ SplitFrame

\* return result
SplitReturn ==
  /\ spc = "loop"
  /\ sidx >= Len(text)
  /\ spc' = "returned"
  /\ UNCHANGED <<sidx, result>>
  /\ SplitFrame

NextSplit ==
  \/ SplitSkip
  \/ SplitCapture
  \/ SplitReturn

SpecSplit == InitSplit /\ [][NextSplit]_vars

\* nesting depth over ( ) { } after the first k characters of t
RECURSIVE DepthAfter(_, _)
DepthAfter(t, k) ==
  IF k = 0 THEN 0
  ELSE DepthAfter(t, k - 1)
       + (IF t[k] \in {"(", "{"} THEN 1 ELSE IF t[k] \in {")", "}"} THEN -1 ELSE 0)

\* identifier( ... ) ending at the ')' that returns the nesting depth to zero
IsCallShaped(t) ==
  \E m \in 1..(Len(t) - 1) :
     /\ \A i \in 1..m : IsNameChar(t[i])
     /\ t[m + 1] = "("
     /\ t[Len(t)] = ")"
     /\ DepthAfter(t, Len(t)) = 0
     /\ \A k \in (m + 1)..(Len(t) - 1) : DepthAfter(t, k) > 0

\* C13: every substring split_module_calls returns has the shape
\* identifier( ... ) with balanced delimiters, ending at the ')' that returns
\* the nesting depth over all bracket kinds to zero; text that is not
\* call-shaped, such as a call whose '(' is never closed, contributes nothing.
C13_ReturnsBalancedCalls ==
  \A k \in 1..Len(result) : IsCallShaped(result[k])

(***************************************************************************)
(* parse_value and its helpers, on texts that are sequences of             *)
(* one-character strings.  The results are the tagged values above, with   *)
(* the characters of a string kept as a sequence.                          *)
(***************************************************************************)
ListV(elems) == [kind |-> "list", elems |-> elems]
FloatV(t) == [kind |-> "float", t |-> t]

DigitChars == <<"0", "1", "2", "3", "4", "5", "6", "7", "8", "9">>

IsDigit(c) == \E d \in 1..10 : DigitChars[d] = c

DigitVal(c) == (CHOOSE d \in 1..10 : DigitChars[d] = c) - 1

StartsWith(t, c) == IF Len(t) > 0 THEN t[1] = c ELSE FALSE

EndsWith(t, c) == IF Len(t) > 0 THEN t[Len(t)] = c ELSE FALSE

Contains(t, c) == \E i \in 1..Len(t) : t[i] = c

\* t.strip(chars)
RECURSIVE LStripChars(_, _)
LStripChars(t, chars) ==
  IF t = <<>> THEN t
  ELSE IF Head(t) \in chars THEN LStripChars(Tail(t), chars) ELSE t

RECURSIVE RStripChars(_, _)
RStripChars(t, chars) ==
  IF t = <<>> THEN t
  ELSE IF t[Len(t)] \in chars THEN RStripChars(SubSeq(t, 1, Len(t) - 1), chars) ELSE t

StripChars(t, chars) == RStripChars(LStripChars(t, chars), chars)

\* t.strip()
Strip(t) == StripChars(t, {" "})

\* t[1:-1]
Inner(t) == SubSeq(t, 2, Len(t) - 1)

\* the loop of split_top_level from index i on
RECURSIVE SplitScan(_, _, _, _, _)
SplitScan(t, i, bracket_level, current, acc) ==
  IF i > Len(t)
  THEN IF current # <<>> THEN Append(acc, current) ELSE acc
  ELSE LET c == t[i]
           level == IF c \in {"(", "[", "{"} THEN bracket_level + 1
                    ELSE IF c \in {")", "]", "}"} THEN bracket_level - 1
                    ELSE bracket_level
       IN  IF c = "," /\ level = 0
           THEN SplitScan(t, i + 1, level, <<>>, Append(acc, current))
           ELSE SplitScan(t, i + 1, level, Append(current, c), acc)

split_top_level(t) == SplitScan(t, 1, 0, <<>>, <<>>)

\* int(t) succeeds: an optional sign and decimal digits
IsIntText(t) ==
  LET digits == IF StartsWith(t, "-") THEN Tail(t) ELSE t
  IN  digits # <<>> /\ \A i \in 1..Len(digits) : IsDigit(digits[i])

RECURSIVE DigitsValue(_)
DigitsValue(t) ==
  IF t = <<>> THEN 0 ELSE 10 * DigitsValue(SubSeq(t, 1, Len(t) - 1)) + DigitVal(t[Len(t)])

IntOf(t) == IF StartsWith(t, "-") THEN 0 - DigitsValue(Tail(t)) ELSE DigitsValue(t)

\* float(t) succeeds, for a text that contains '.': digits around one point
IsFloatText(t) ==
  LET digits == IF StartsWith(t, "-") THEN Tail(t) ELSE t
  IN  /\ Cardinality({i \in 1..Len(digits) : digits[i] = "."}) = 1
      /\ \E i \in 1..Len(digits) : IsDigit(digits[i])
      /\ \A i \in 1..Len(digits) : IsDigit(digits[i]) \/ digits[i] = "."

\* item.split(':', 1)
FirstColon(t) == CHOOSE i \in 1..Len(t) : t[i] = ":" /\ \A j \in 1..(i - 1) : t[j] # ":"

\* key.strip().strip('"').strip("'").replace(' ', '_')
DictKey(t) ==
  LET k == StripChars(StripChars(Strip(t), {"\""}), {"'"})
  IN  [i \in 1..Len(k) |-> IF k[i] = " " THEN "_" ELSE k[i]]

\* result[key] = val on the items of a dict
DictStore(items, key, val) ==
  IF \E i \in 1..Len(items) : items[i][1] = key
  THEN [i \in 1..Len(items) |-> IF items[i][1] = key THEN <<key, val>> ELSE items[i]]
  ELSE Append(items, <<key, val>>)

RECURSIVE parse_value(_)
RECURSIVE DictItems(_, _, _)

\* the for loop of parse_dict from item k on
DictItems(items, k, acc) ==
  IF k > Len(items) THEN acc
  ELSE IF ~Contains(items[k], ":") THEN DictItems(items, k + 1, acc)
  ELSE LET colon == FirstColon(items[k])
           key == DictKey(SubSeq(items[k], 1, colon - 1))
           val == Strip(SubSeq(items[k], colon + 1, Len(items[k])))
       IN  DictItems(items, k + 1, DictStore(acc, key, parse_value(val)))

parse_dict(dict_str) ==
  MapV(DictItems(split_top_level(Strip(Inner(Strip(dict_str)))), 1, <<>>))

parse_tuple(tuple_str) ==
  LET items == split_top_level(Strip(Inner(Strip(tuple_str))))
  IN  TupleV([i \in 1..Len(items) |-> parse_value(items[i])])

parse_list(list_str) ==
  LET items == split_top_level(Strip(Inner(Strip(list_str))))
  IN  ListV([i \in 1..Len(items) |-> parse_value(items[i])])

IsQuoted(t) ==
  \/ StartsWith(t, "'") /\ EndsWith(t, "'")
  \/ StartsWith(t, "\"") /\ EndsWith(t, "\"")

parse_value(v) ==
  LET value_str == Strip(v)
      unquoted == Strip(Inner(value_str))
  IN  IF StartsWith(value_str, "{") /\ EndsWith(value_str, "}") THEN parse_dict(value_str)
      ELSE IF StartsWith(value_str, "(") /\ EndsWith(value_str, ")") THEN parse_tuple(value_str)
      ELSE IF StartsWith(value_str, "[") /\ EndsWith(value_str, "]") THEN parse_list(value_str)
      ELSE IF IsQuoted(value_str)
           THEN IF StartsWith(unquoted, "{") /\ EndsWith(unquoted, "}") THEN parse_dict(unquoted)
                ELSE IF StartsWith(unquoted, "(") /\ EndsWith(unquoted, ")") THEN parse_tuple(unquoted)
                ELSE IF StartsWith(unquoted, "[") /\ EndsWith(unquoted, "]") THEN parse_list(unquoted)
                ELSE StrV(unquoted)
      ELSE IF Contains(value_str, ".")
           THEN IF IsFloatText(value_str) THEN FloatV(value_str) ELSE StrV(value_str)
      ELSE IF IsIntText(value_str) THEN IntV(IntOf(value_str))
      ELSE StrV(value_str)

(***************************************************************************)
(* The Values the parser is applied to, and their literal text             *)
(***************************************************************************)
MaxDepth == 3
MaxElems == 2

ValueInts == {0, 12, -3}

ValueStrings ==
  { <<"a">>, <<>>, <<"a", ",", "b">>, <<"a", ":", "b">>, <<"[", "a", "]">> }

ValueKeys == { <<"k">>, <<"a", " ", "b">> }

Scalars == { IntV(n) : n \in ValueInts } \cup { StrV(t) : t \in ValueStrings }

\* the scalars that occur in containers of more than one element
FewScalars == { IntV(12), StrV(<<"a">>), StrV(<<"a", ",", "b">>) }

TuplesOver(S, n) == UNION { [1..k -> S] : k \in 0..n }

DistinctItemKeys(it) == \A i, j \in 1..Len(it) : it[i][1] = it[j][1] => i = j

\* the values nested in at most d containers: a container of containers has
\* at most one element, a container of scalars at most MaxElems
RECURSIVE ValuesOfDepth(_)
ValuesOfDepth(d) ==
  IF d = 0 THEN Scalars
  ELSE LET inner == ValuesOfDepth(d - 1)
           elems == IF d = 1
                    THEN TuplesOver(FewScalars, MaxElems) \cup TuplesOver(Scalars, 1)
                    ELSE TuplesOver(inner, 1)
           items == IF d = 1
                    THEN { it \in TuplesOver(ValueKeys \X FewScalars, MaxElems) :
                             DistinctItemKeys(it) }
                         \cup TuplesOver(ValueKeys \X Scalars, 1)
                    ELSE TuplesOver(ValueKeys \X inner, 1)
       IN  inner \cup { ListV(e) : e \in elems } \cup { TupleV(e) : e \in elems }
                 \cup { MapV(it) : it \in items }

Values == ValuesOfDepth(MaxDepth)

RECURSIVE DigitsText(_)
DigitsText(n) ==
  IF n < 10 THEN <<DigitChars[n + 1]>>
  ELSE DigitsText(n \div 10) \o <<DigitChars[(n % 10) + 1]>>

\* the pieces joined with ", "
RECURSIVE Join(_)
Join(pieces) ==
  IF pieces = <<>> THEN <<>>
  ELSE IF Len(pieces) = 1 THEN pieces[1]
  ELSE pieces[1] \o <<",", " ">> \o Join(Tail(pieces))

\* the literal text of a value: digits, '...', [a, b], (a, b), (a,), {'k': a}
RECURSIVE Literal(_)
Literal(v) ==
  CASE v.kind = "int" -> IF v.n < 0 THEN <<"-">> \o DigitsText(0 - v.n) ELSE DigitsText(v.n)
    [] v.kind = "str" -> <<"'">> \o v.s \o <<"'">>
    [] v.kind = "list" ->
         <<"[">> \o Join([i \in 1..Len(v.elems) |-> Literal(v.elems[i])]) \o <<"]">>
    [] v.kind = "tuple" ->
         <<"(">> \o Join([i \in 1..Len(v.elems) |-> Literal(v.elems[i])])
                 \o (IF Len(v.elems) = 1 THEN <<",">> ELSE <<>>) \o <<")">>
    [] v.kind = "map" ->
         <<"{">> \o Join([i \in 1..Len(v.items) |->
                            <<"'">> \o v.items[i][1] \o <<"'", ":", " ">>
                                    \o Literal(v.items[i][2])])
                 \o <<"}">>

InitParse ==
  /\ value \in Values
  /\ text = Literal(value)
  /\ parsed = None
  /\ ppc = "call"
  /\ sidx = 0
  /\ result = <<>>
  /\ spc = "idle"
  /\ module_calls = <<>>
  /\ containers_dict = << >>
  /\ registry0 = << >>
  /\ pose_sequence = <<>>
  /\ targets = <<>>
  /\ pose_counter = 1
  /\ idx = 0
  /\ pc = "idle"
  /\ run = 1
  /\ first_output = <<>>
  /\ MapIdle

\* parsed = parse_value(text)
ParseValue ==
  /\ ppc = "call"
  /\ parsed' = parse_value(text)
  /\ ppc' = "returned"
  /\ UNCHANGED <<text, sidx, result, spc, value, posevars, mapvars>>

NextParse == ParseValue

SpecParse == InitParse /\ [][NextParse]_vars

\* equality of two values: same kind and same content, a mapping compared
\* without regard to the order of its keys
RECURSIVE SameValue(_, _)
SameValue(a, b) ==
  /\ a.kind = b.kind
  /\ CASE a.kind = "int" -> a.n = b.n
       [] a.kind = "str" -> a.s = b.s
       [] a.kind = "float" -> a.t = b.t
       [] a.kind \in {"list", "tuple"} ->
            /\ Len(a.elems) = Len(b.elems)
            /\ \A i \in 1..Len(a.elems) : SameValue(a.elems[i], b.elems[i])
       [] a.kind = "map" ->
            /\ Len(a.items) = Len(b.items)
            /\ \A i \in 1..Len(a.items) :
                  \E j \in 1..Len(b.items) :
                     /\ a.items[i][1] = b.items[j][1]
                     /\ SameValue(a.items[i][2], b.items[j][2])

\* C14: for every Value built from integers, strings, sequences and mappings
\* nested to depth at most 3, parse_value applied to the Value's literal text
\* returns a Value equal to the original.
C14_RoundTrip == ppc = "returned" => SameValue(parsed, value)

\* a step of process_module_sequence that handles a pour command
IsPourStep ==
  /\ mpc = "loop"
  /\ ncalls' = ncalls + 1
  /\ Lower(module_call'.name) = "pour"

\* the line the step appended has the form the pour rule prescribes
PourLineOK ==
  /\ mpc' # "aborted"
  /\ Len(updated_module_sequence') = Len(updated_module_sequence) + 1
  /\ SubSeq(updated_module_sequence', 1, Len(updated_module_sequence)) = updated_module_sequence
  /\ LET written == updated_module_sequence'[Len(updated_module_sequence')]
         params == module_call'.params
         volume == DictGet(params, "volume", None)
     IN  /\ written.head = "pour"
         /\ IF volume \in {None, StrV("all")}
            THEN Len(written.args) = 2
            ELSE /\ Len(written.args) = 3
                 /\ volume.kind \in {"int", "str"} => written.args[3] = <<PyStr(volume)>>
         /\ ~HasKey(params, "destination_container")
               => written.args[2] = <<"active_container">>

C15_Step == IsPourStep => PourLineOK

\* C15: every pour command is normalized to pour(<origin_id>,<destination_id>)
\* when its volume is absent or "all" and to
\* pour(<origin_id>,<destination_id>,<volume>) with the volume's literal value
\* otherwise; with no destination_container field the destination id written
\* is "active_container".
C15_PourNormalization == [][C15_Step]_vars

====
